---------------------------- MODULE Spec2Model ----------------------------
(***************************************************************************)
(* Model of src/services/diff_extractor.py: the heuristic field extractor  *)
(* extract_key_fields, the record comparison compute_differences and the   *)
(* classifier key_fields_indicate_different_claim.                         *)
(*                                                                         *)
(* A Python str is a sequence of one-character strings.  A Python value    *)
(* held by a record is tagged: None, a str, or an int.                     *)
(***************************************************************************)
EXTENDS Integers, Sequences, FiniteSets, TLC

VARIABLES
    text,             \* argument of extract_key_fields
    fields,           \* its return value (NotCalled before the call)
    new_fields,       \* first argument of compute_differences / the classifier
    existing_fields,  \* second argument
    min_differences,  \* third argument of the classifier
    diffs,            \* return value of compute_differences
    verdict,          \* return value of key_fields_indicate_different_claim
    pc                \* "ready" before a call; after it "extracted", "diffed"
                      \* or "classified", naming the function that returned

vars == <<text, fields, new_fields, existing_fields, min_differences,
          diffs, verdict, pc>>

NotCalled == "not called"

-----------------------------------------------------------------------------
(* Python values *)

None == [t |-> "none"]
PyStr(s) == [t |-> "str", v |-> s]
PyInt(n) == [t |-> "int", n |-> n]

\* ov != nv negated: values of different types are never equal.
PyEq(a, b) ==
    /\ a.t = b.t
    /\ CASE a.t = "none" -> TRUE
         [] a.t = "str"  -> a.v = b.v
         [] a.t = "int"  -> a.n = b.n

DigitChars == <<"0", "1", "2", "3", "4", "5", "6", "7", "8", "9">>

RECURSIVE NatToStr(_)
NatToStr(n) ==
    IF n < 10 THEN <<DigitChars[n + 1]>>
    ELSE NatToStr(n \div 10) \o <<DigitChars[(n % 10) + 1]>>

\* str(v) for a value that is not None.
str(v) ==
    CASE v.t = "str" -> v.v
      [] v.t = "int" -> IF v.n < 0 THEN <<"-">> \o NatToStr(-v.n) ELSE NatToStr(v.n)

\* U+2014 EM DASH, written as one character of the model's alphabet
EmDash == "EMDASH"

\* the placeholder of lines 108-109: the one-character string holding U+2014
Placeholder == <<EmDash>>

-----------------------------------------------------------------------------
(* characters *)

UpperLetters ==
    {"A", "B", "C", "D", "E", "F", "G", "H", "I", "J", "K", "L", "M",
     "N", "O", "P", "Q", "R", "S", "T", "U", "V", "W", "X", "Y", "Z"}
LowerLetters ==
    {"a", "b", "c", "d", "e", "f", "g", "h", "i", "j", "k", "l", "m",
     "n", "o", "p", "q", "r", "s", "t", "u", "v", "w", "x", "y", "z"}
Letters == UpperLetters \cup LowerLetters
Digits == {"0", "1", "2", "3", "4", "5", "6", "7", "8", "9"}

\* \s, and the characters str.strip() removes
Whitespace == {" ", "\t", "\n", "\r", "\f"}

\* U+20B9 INDIAN RUPEE SIGN, written as one character of the model's alphabet
Rupee == "RUPEE"

LowerMap ==
    ("A" :> "a") @@ ("B" :> "b") @@ ("C" :> "c") @@ ("D" :> "d") @@
    ("E" :> "e") @@ ("F" :> "f") @@ ("G" :> "g") @@ ("H" :> "h") @@
    ("I" :> "i") @@ ("J" :> "j") @@ ("K" :> "k") @@ ("L" :> "l") @@
    ("M" :> "m") @@ ("N" :> "n") @@ ("O" :> "o") @@ ("P" :> "p") @@
    ("Q" :> "q") @@ ("R" :> "r") @@ ("S" :> "s") @@ ("T" :> "t") @@
    ("U" :> "u") @@ ("V" :> "v") @@ ("W" :> "w") @@ ("X" :> "x") @@
    ("Y" :> "y") @@ ("Z" :> "z")
UpperMap ==
    ("a" :> "A") @@ ("b" :> "B") @@ ("c" :> "C") @@ ("d" :> "D") @@
    ("e" :> "E") @@ ("f" :> "F") @@ ("g" :> "G") @@ ("h" :> "H") @@
    ("i" :> "I") @@ ("j" :> "J") @@ ("k" :> "K") @@ ("l" :> "L") @@
    ("m" :> "M") @@ ("n" :> "N") @@ ("o" :> "O") @@ ("p" :> "P") @@
    ("q" :> "Q") @@ ("r" :> "R") @@ ("s" :> "S") @@ ("t" :> "T") @@
    ("u" :> "U") @@ ("v" :> "V") @@ ("w" :> "W") @@ ("x" :> "X") @@
    ("y" :> "Y") @@ ("z" :> "Z")

Lower(c) == IF c \in UpperLetters THEN LowerMap[c] ELSE c
Upper(c) == IF c \in LowerLetters THEN UpperMap[c] ELSE c

-----------------------------------------------------------------------------
(* regular expressions, matched as re does: by backtracking, greedy          *)
(* repetitions trying the longest first, alternatives from left to right.   *)
(* Ends(r, t, i, ci) is the sequence of positions at which a match of r     *)
(* starting at position i of t can end, in the order backtracking tries     *)
(* them; ci is the flag re.I.                                               *)

Lit(s) == [op |-> "lit", s |-> s]
Cls(S) == [op |-> "cls", set |-> S]
NotCls(S) == [op |-> "ncls", set |-> S]
Cat(rs) == [op |-> "cat", rs |-> rs]
Alt(rs) == [op |-> "alt", rs |-> rs]
Rep(r, lo, hi) == [op |-> "rep", r |-> r, lo |-> lo, bounded |-> TRUE, hi |-> hi]
Star(r) == [op |-> "rep", r |-> r, lo |-> 0, bounded |-> FALSE, hi |-> 0]
Plus(r) == [op |-> "rep", r |-> r, lo |-> 1, bounded |-> FALSE, hi |-> 0]
Opt(r) == Rep(r, 0, 1)

CharEq(c, l, ci) == c = l \/ (ci /\ Lower(c) = Lower(l))
InClass(c, S, ci) == c \in S \/ (ci /\ (Lower(c) \in S \/ Upper(c) \in S))

RECURSIVE Ends(_, _, _, _), RepEnds(_, _, _, _, _), RepOver(_, _, _, _, _, _),
          CatEnds(_, _, _, _, _), CatOver(_, _, _, _, _, _), AltEnds(_, _, _, _, _)

Ends(r, t, i, ci) ==
    CASE r.op = "lit"  -> IF /\ i + Len(r.s) - 1 <= Len(t)
                             /\ \A k \in 1..Len(r.s) : CharEq(t[i + k - 1], r.s[k], ci)
                          THEN <<i + Len(r.s)>> ELSE <<>>
      [] r.op = "cls"  -> IF i <= Len(t) /\ InClass(t[i], r.set, ci) THEN <<i + 1>> ELSE <<>>
      [] r.op = "ncls" -> IF i <= Len(t) /\ ~InClass(t[i], r.set, ci) THEN <<i + 1>> ELSE <<>>
      [] r.op = "rep"  -> RepEnds(r, t, i, ci, 0)
      [] r.op = "cat"  -> CatEnds(r.rs, 1, t, i, ci)
      [] r.op = "alt"  -> AltEnds(r.rs, 1, t, i, ci)

\* n repetitions done, now at i: first one more repetition, then stopping here
RepEnds(r, t, i, ci, n) ==
    (IF r.bounded /\ n >= r.hi THEN <<>>
     ELSE RepOver(Ends(r.r, t, i, ci), 1, r, t, ci, n))
    \o (IF n >= r.lo THEN <<i>> ELSE <<>>)

RepOver(es, k, r, t, ci, n) ==
    IF k > Len(es) THEN <<>>
    ELSE RepEnds(r, t, es[k], ci, n + 1) \o RepOver(es, k + 1, r, t, ci, n)

CatEnds(rs, j, t, i, ci) ==
    IF j > Len(rs) THEN <<i>>
    ELSE CatOver(Ends(rs[j], t, i, ci), 1, rs, j, t, ci)

CatOver(es, k, rs, j, t, ci) ==
    IF k > Len(es) THEN <<>>
    ELSE CatEnds(rs, j + 1, t, es[k], ci) \o CatOver(es, k + 1, rs, j, t, ci)

AltEnds(rs, j, t, i, ci) ==
    IF j > Len(rs) THEN <<>>
    ELSE Ends(rs[j], t, i, ci) \o AltEnds(rs, j + 1, t, i, ci)

\* A pattern with one capturing group: what precedes the group, the group,
\* what follows it, and the flag re.I.
Pattern(pre, cap, post, ci) == [pre |-> pre, cap |-> cap, post |-> post, ci |-> ci]

RECURSIVE CapOver(_, _, _, _, _), PreOver(_, _, _, _), SearchFrom(_, _, _)

\* the first end of the group, among es from the k-th on, the rest matches after
CapOver(p, t, a, es, k) ==
    IF k > Len(es) THEN <<>>
    ELSE IF Ends(p.post, t, es[k], p.ci) # <<>> THEN <<a, es[k]>>
         ELSE CapOver(p, t, a, es, k + 1)

PreOver(p, t, as, k) ==
    IF k > Len(as) THEN <<>>
    ELSE LET m == CapOver(p, t, as[k], Ends(p.cap, t, as[k], p.ci), 1)
         IN  IF m # <<>> THEN m ELSE PreOver(p, t, as, k + 1)

\* the match starting at s: <<start of group 1, its end>>, or <<>> for none
MatchAt(p, t, s) == PreOver(p, t, Ends(p.pre, t, s, p.ci), 1)

SearchFrom(p, t, s) ==
    IF s > Len(t) + 1 THEN <<>>
    ELSE LET m == MatchAt(p, t, s)
         IN  IF m # <<>> THEN m ELSE SearchFrom(p, t, s + 1)

\* re.search(p, t): the span of group 1 of the leftmost match, <<>> for None
re_search(p, t) == SearchFrom(p, t, 1)

\* m.group(1)
group1(t, m) == SubSeq(t, m[1], m[2] - 1)

RECURSIVE lstrip(_), rstrip(_)
lstrip(s) == IF s # <<>> /\ Head(s) \in Whitespace THEN lstrip(Tail(s)) ELSE s
rstrip(s) ==
    IF s # <<>> /\ s[Len(s)] \in Whitespace THEN rstrip(SubSeq(s, 1, Len(s) - 1)) ELSE s

\* str.strip()
strip(s) == rstrip(lstrip(s))

-----------------------------------------------------------------------------
(* the patterns of extract_key_fields *)

WS == Cls(Whitespace)
ColonWS == Cls({":"} \cup Whitespace)
Digit == Cls(Digits)

\* ([\d,]+(?:\.\d+)?)
NumberGroup == Cat(<<Plus(Cls(Digits \cup {","})), Opt(Cat(<<Lit(<<".">>), Plus(Digit)>>))>>)

\* (\d{1,2}[/\-]\d{1,2}[/\-]\d{2,4})
DateGroup ==
    Cat(<<Rep(Digit, 1, 2), Cls({"/", "-"}), Rep(Digit, 1, 2), Cls({"/", "-"}), Rep(Digit, 2, 4)>>)

\* ([A-Za-z\s]{2,50})
NameGroup == Rep(Cls(Letters \cup Whitespace), 2, 50)

\* ([A-Za-z0-9\-/]+)
PolicyGroup == Plus(Cls(Letters \cup Digits \cup {"-", "/"}))

Nothing == Cat(<<>>)

\* \s*(?:L|Lakh)?
LakhSuffix == Cat(<<Star(WS), Opt(Alt(<<Lit(<<"L">>), Lit(<<"L", "a", "k", "h">>)>>))>>)

amount_patterns == <<
    Pattern(Cat(<<Lit(<<"t", "r", "e", "a", "t", "m", "e", "n", "t">>), Star(WS), Lit(<<"c", "o", "s", "t">>),
                  Star(ColonWS), Star(NotCls(Digits))>>),
            NumberGroup, Nothing, TRUE),
    Pattern(Cat(<<Cls({"R", "r"}), Lit(<<"s">>), Opt(Lit(<<".">>)), Star(WS)>>),
            NumberGroup, LakhSuffix, TRUE),
    Pattern(Cat(<<Lit(<<Rupee>>), Star(WS)>>), NumberGroup, LakhSuffix, TRUE),
    Pattern(Nothing, NumberGroup,
            Cat(<<Star(WS), Alt(<<Lit(<<"L">>), Lit(<<"L", "a", "k", "h">>), Lit(<<"I", "N", "R">>)>>)>>), TRUE),
    Pattern(Cat(<<Lit(<<"c", "l", "a", "i", "m">>), Star(WS), Lit(<<"a", "m", "o", "u", "n", "t">>), Plus(ColonWS)>>),
            NumberGroup, Nothing, TRUE),
    Pattern(Cat(<<Lit(<<"a", "m", "o", "u", "n", "t">>), Plus(ColonWS)>>), NumberGroup, Nothing, TRUE) >>

policy_pattern ==
    Pattern(Cat(<<Lit(<<"p", "o", "l", "i", "c", "y">>), Star(WS),
                  Opt(Alt(<<Lit(<<"n", "o">>), Lit(<<"n", "u", "m", "b", "e", "r">>), Lit(<<"#">>)>>)),
                  Star(ColonWS)>>),
            PolicyGroup, Nothing, TRUE)

date_of_incident_pattern ==
    Pattern(Cat(<<Lit(<<"d", "a", "t", "e">>), Plus(WS), Lit(<<"o", "f">>), Plus(WS), Lit(<<"i", "n", "c", "i", "d", "e", "n", "t">>),
                  Star(ColonWS)>>),
            DateGroup, Nothing, TRUE)

keyword_date_pattern ==
    Pattern(Cat(<<Alt(<<Lit(<<"i", "n", "c", "i", "d", "e", "n", "t">>), Lit(<<"d", "a", "t", "e">>), Lit(<<"l", "o", "s", "s">>), Lit(<<"a", "c", "c", "i", "d", "e", "n", "t">>)>>),
                  Star(WS), Opt(Lit(<<"d", "a", "t", "e">>)), Star(ColonWS)>>),
            DateGroup, Nothing, TRUE)

bare_date_pattern == Pattern(Nothing, DateGroup, Nothing, FALSE)

policy_holder_name_pattern ==
    Pattern(Cat(<<Lit(<<"p", "o", "l", "i", "c", "y">>), Star(WS), Lit(<<"h", "o", "l", "d", "e", "r">>), Star(WS), Lit(<<"n", "a", "m", "e">>),
                  Star(ColonWS)>>),
            NameGroup, Nothing, TRUE)

keyword_name_pattern ==
    Pattern(Cat(<<Alt(<<Lit(<<"c", "l", "a", "i", "m", "a", "n", "t">>), Lit(<<"n", "a", "m", "e">>), Lit(<<"i", "n", "s", "u", "r", "e", "d">>)>>), Star(ColonWS)>>),
            NameGroup, Nothing, TRUE)

-----------------------------------------------------------------------------
(* extract_key_fields *)

\* the loop of lines 25-29 without its break: the last matching pattern wins
RECURSIVE AmountLoop_NoBreak(_, _)
AmountLoop_NoBreak(t, k) ==
    IF k > Len(amount_patterns) THEN None
    ELSE LET m    == re_search(amount_patterns[k], t)
             rest == AmountLoop_NoBreak(t, k + 1)
         IN  IF rest.t # "none" THEN rest
             ELSE IF m # <<>> THEN PyStr(strip(group1(t, m))) ELSE None

\* the loop of lines 25-29 from the k-th pattern on
RECURSIVE AmountLoop(_, _)
AmountLoop(t, k) ==
    IF k > Len(amount_patterns) THEN None
    ELSE LET m == re_search(amount_patterns[k], t)
         IN  IF m # <<>> THEN PyStr(strip(group1(t, m))) ELSE AmountLoop(t, k + 1)

ExtractAmount(t) == AmountLoop(t, 1)

ExtractPolicy(t) ==
    LET policy_m == re_search(policy_pattern, t)
    IN  IF policy_m # <<>> THEN PyStr(strip(group1(t, policy_m))) ELSE None

\* lines 37-55 with the bare date tried before the keyword-anchored one
ExtractDate_BareBeforeKeyword(t) ==
    LET m1 == re_search(date_of_incident_pattern, t)
        m2 == re_search(keyword_date_pattern, t)
        m3 == re_search(bare_date_pattern, t)
    IN  IF m1 # <<>> THEN PyStr(strip(group1(t, m1)))
        ELSE IF m3 # <<>> THEN PyStr(strip(group1(t, m3)))
        ELSE IF m2 # <<>> THEN PyStr(strip(group1(t, m2)))
        ELSE None

ExtractDate(t) ==
    LET m1 == re_search(date_of_incident_pattern, t)
        m2 == re_search(keyword_date_pattern, t)
        m3 == re_search(bare_date_pattern, t)
    IN  IF m1 # <<>> THEN PyStr(strip(group1(t, m1)))
        ELSE IF m2 # <<>> THEN PyStr(strip(group1(t, m2)))
        ELSE IF m3 # <<>> THEN PyStr(strip(group1(t, m3)))
        ELSE None

\* the slice [:80] of line 70
NameLimit == 80

ExtractName(t) ==
    LET m1 == re_search(policy_holder_name_pattern, t)
        name_m == IF m1 = <<>> THEN re_search(keyword_name_pattern, t) ELSE m1
    IN  IF name_m # <<>>
        THEN PyStr(SubSeq(strip(group1(t, name_m)), 1,
                          IF Len(strip(group1(t, name_m))) < NameLimit
                          THEN Len(strip(group1(t, name_m))) ELSE NameLimit))
        ELSE None

\* extract_key_fields with fields starting as the empty dict instead of
\* lines 10-15: a field that matches nothing has no key
extract_key_fields_NoDefaults(t) ==
    LET full == [claim_amount  |-> ExtractAmount(t),
                 claimant_name |-> ExtractName(t),
                 incident_date |-> ExtractDate(t),
                 policy_number |-> ExtractPolicy(t)]
    IN  [k \in {f \in DOMAIN full : full[f].t # "none"} |-> full[k]]

extract_key_fields(t) ==
    [claim_amount  |-> ExtractAmount(t),
     claimant_name |-> ExtractName(t),
     incident_date |-> ExtractDate(t),
     policy_number |-> ExtractPolicy(t)]

-----------------------------------------------------------------------------
(* inputs of the extraction: texts put together from phrases *)

\* number of phrases of a text
MaxTokens == 2

\* 'Treatment Cost 54,300 '
TokTreatmentCost ==
    <<"T", "r", "e", "a", "t", "m", "e", "n", "t", " ", "C", "o", "s", "t",
          " ", "5", "4", ",", "3", "0", "0", " ">>

\* 'Rs. 1,200 '
TokRsAmount ==
    <<"R", "s", ".", " ", "1", ",", "2", "0", "0", " ">>

\* '<U+20B9>1.2L '
TokRupeeAmount ==
    <<Rupee, "1", ".", "2", "L", " ">>

\* '3 lakh '
TokLakhAmount ==
    <<"3", " ", "l", "a", "k", "h", " ">>

\* 'claim amount: 5 '
TokClaimAmount ==
    <<"c", "l", "a", "i", "m", " ", "a", "m", "o", "u", "n", "t", ":", " ",
          "5", " ">>

\* 'Amount:6 '
TokPlainAmount ==
    <<"A", "m", "o", "u", "n", "t", ":", "6", " ">>

\* 'Policy No: AB-1 '
TokPolicyNo ==
    <<"P", "o", "l", "i", "c", "y", " ", "N", "o", ":", " ", "A", "B", "-",
          "1", " ">>

\* 'Policy Holder Name: Al '
TokPolicyHolderName ==
    <<"P", "o", "l", "i", "c", "y", " ", "H", "o", "l", "d", "e", "r", " ",
          "N", "a", "m", "e", ":", " ", "A", "l", " ">>

\* 'claimant: Bo '
TokClaimant ==
    <<"c", "l", "a", "i", "m", "a", "n", "t", ":", " ", "B", "o", " ">>

\* 'name:'
TokNameColon ==
    <<"n", "a", "m", "e", ":">>

\* '  '
TokTwoSpaces ==
    <<" ", " ">>

\* 'Date of Incident: 12/05/2023 '
TokDateOfIncident ==
    <<"D", "a", "t", "e", " ", "o", "f", " ", "I", "n", "c", "i", "d", "e",
          "n", "t", ":", " ", "1", "2", "/", "0", "5", "/", "2", "0", "2",
          "3", " ">>

\* 'loss date: 2/2/21 '
TokLossDate ==
    <<"l", "o", "s", "s", " ", "d", "a", "t", "e", ":", " ", "2", "/", "2",
          "/", "2", "1", " ">>

\* '1-1-20 '
TokBareDate ==
    <<"1", "-", "1", "-", "2", "0", " ">>

\* 'hello '
TokHello ==
    <<"h", "e", "l", "l", "o", " ">>

\* 'date of incident '
TokDateOfIncidentOnly ==
    <<"d", "a", "t", "e", " ", "o", "f", " ", "i", "n", "c", "i", "d", "e", "n", "t", " ">>

Vocabulary ==
    {TokTreatmentCost, TokRsAmount, TokRupeeAmount, TokLakhAmount,
     TokClaimAmount, TokPlainAmount, TokPolicyNo, TokPolicyHolderName,
     TokClaimant, TokNameColon, TokTwoSpaces, TokDateOfIncident,
     TokLossDate, TokBareDate, TokHello, TokDateOfIncidentOnly}

\* scenario A of the specification
ScenarioA ==
    <<"P", "o", "l", "i", "c", "y", " ", "H", "o", "l", "d", "e", "r", " ",
          "N", "a", "m", "e", ":", " ", "J", "o", "h", "n", " ", "S", "m",
          "i", "t", "h", ",", " ", "D", "a", "t", "e", " ", "o", "f", " ",
          "I", "n", "c", "i", "d", "e", "n", "t", ":", " ", "1", "2", "/",
          "0", "5", "/", "2", "0", "2", "3", ",", " ", "P", "o", "l", "i",
          "c", "y", " ", "N", "o", ":", " ", "A", "B", "C", "-", "1", "2",
          "3", ",", " ", "T", "r", "e", "a", "t", "m", "e", "n", "t", " ",
          "C", "o", "s", "t", " ", "5", "4", ",", "3", "0", "0">>

RECURSIVE Concat(_)
Concat(ts) == IF ts = <<>> THEN <<>> ELSE Head(ts) \o Concat(Tail(ts))

Texts ==
    {Concat(ts) : ts \in UNION {[1..n -> Vocabulary] : n \in 0..MaxTokens}} \cup {ScenarioA}

\* the record arguments while only the extractor is exercised: empty dicts
NoRecord == <<>>

Init ==
    /\ text \in Texts
    /\ fields = NotCalled
    /\ new_fields = NoRecord
    /\ existing_fields = NoRecord
    /\ min_differences = NotCalled
    /\ diffs = NotCalled
    /\ verdict = NotCalled
    /\ pc = "ready"

ExtractKeyFields ==
    /\ pc = "ready"
    /\ fields' = extract_key_fields(text)
    /\ pc' = "extracted"
    /\ UNCHANGED <<text, new_fields, existing_fields, min_differences, diffs, verdict>>

Next == ExtractKeyFields

Spec == Init /\ [][Next]_vars

-----------------------------------------------------------------------------
(* what a pattern matches, as a language: Lang(r, t, i, ci) is the set of   *)
(* positions at which some match of r starting at position i of t ends,     *)
(* with no order among them.                                                *)

RECURSIVE Lang(_, _, _, _), RepLang(_, _, _, _, _), CatLang(_, _, _, _, _)

Lang(r, t, i, ci) ==
    CASE r.op = "lit"  -> IF /\ i + Len(r.s) - 1 <= Len(t)
                             /\ \A k \in 1..Len(r.s) : CharEq(t[i + k - 1], r.s[k], ci)
                          THEN {i + Len(r.s)} ELSE {}
      [] r.op = "cls"  -> IF i <= Len(t) /\ InClass(t[i], r.set, ci) THEN {i + 1} ELSE {}
      [] r.op = "ncls" -> IF i <= Len(t) /\ ~InClass(t[i], r.set, ci) THEN {i + 1} ELSE {}
      [] r.op = "rep"  -> RepLang(r, t, i, ci, 0)
      [] r.op = "cat"  -> CatLang(r.rs, 1, t, {i}, ci)
      [] r.op = "alt"  -> UNION {Lang(r.rs[j], t, i, ci) : j \in DOMAIN r.rs}

RepLang(r, t, i, ci, n) ==
    (IF n >= r.lo THEN {i} ELSE {})
    \cup (IF r.bounded /\ n >= r.hi THEN {}
          ELSE UNION {RepLang(r, t, e, ci, n + 1) : e \in Lang(r.r, t, i, ci)})

CatLang(rs, j, t, S, ci) ==
    IF j > Len(rs) \/ S = {} THEN S
    ELSE CatLang(rs, j + 1, t, UNION {Lang(rs[j], t, i, ci) : i \in S}, ci)

\* the spans <<start, end>> group 1 can take in a match of p starting at s
Captures(p, t, s) ==
    UNION {{<<a, b>> : b \in {e \in Lang(p.cap, t, a, p.ci) : Lang(p.post, t, e, p.ci) # {}}} :
              a \in Lang(p.pre, t, s, p.ci)}

Starts(t) == 1 .. (Len(t) + 1)

\* p matches somewhere in t
Occurs(p, t) == \E s \in Starts(t) : Captures(p, t, s) # {}

Min(S) == CHOOSE x \in S : \A y \in S : x <= y
Max(S) == CHOOSE x \in S : \A y \in S : x >= y

\* where the leftmost match of p starts
Leftmost(p, t) == Min({s \in Starts(t) : Captures(p, t, s) # {}})

FieldNames == {"claim_amount", "claimant_name", "incident_date", "policy_number"}

date_tiers == <<date_of_incident_pattern, keyword_date_pattern, bare_date_pattern>>
name_tiers == <<policy_holder_name_pattern, keyword_name_pattern>>

\* the patterns that can set each field
PatternsOf(field) ==
    CASE field = "claim_amount"  -> {amount_patterns[k] : k \in DOMAIN amount_patterns}
      [] field = "policy_number" -> {policy_pattern}
      [] field = "incident_date" -> {date_tiers[k] : k \in DOMAIN date_tiers}
      [] field = "claimant_name" -> {name_tiers[k] : k \in DOMAIN name_tiers}

\* every character a text of the model can hold
Alphabet == UNION {{tok[i] : i \in DOMAIN tok} : tok \in Vocabulary \cup {ScenarioA}}

IsStr(v) == DOMAIN v = 1..Len(v) /\ \A i \in DOMAIN v : v[i] \in Alphabet

-----------------------------------------------------------------------------
(* properties of extract_key_fields *)

\* C3: on the text of scenario A the extractor returns claimant_name
\* "John Smith", incident_date "12/05/2023", policy_number "ABC-123" and
\* claim_amount "54,300".
C3_ScenarioA ==
    (pc = "extracted" /\ text = ScenarioA) =>
        fields = [claimant_name |-> PyStr(<<"J", "o", "h", "n", " ", "S", "m", "i", "t", "h">>),
                  incident_date |-> PyStr(<<"1", "2", "/", "0", "5", "/", "2", "0", "2", "3">>),
                  policy_number |-> PyStr(<<"A", "B", "C", "-", "1", "2", "3">>),
                  claim_amount  |-> PyStr(<<"5", "4", ",", "3", "0", "0">>)]

\* C6: for every text the extractor returns a record whose keys are exactly
\* the four field names, each value None or a str, and a field none of whose
\* patterns matches anywhere in the text is None.
C6_FourKeysNoneOrStr ==
    pc = "extracted" =>
        /\ DOMAIN fields = FieldNames
        /\ \A f \in FieldNames :
              /\ fields[f].t \in {"none", "str"}
              /\ fields[f].t = "str" => IsStr(fields[f].v)
              /\ (\A p \in PatternsOf(f) : ~Occurs(p, text)) => fields[f].t = "none"

\* C6 witness: a text that matches no pattern, extracted: all four are None.
C6_Witness ==
    /\ pc = "extracted"
    /\ text = TokHello
    /\ \A f \in FieldNames : \A p \in PatternsOf(f) : ~Occurs(p, text)
    /\ fields = [f \in FieldNames |-> None]

\* C7: claim_amount is the stripped group 1 of the leftmost match of the first
\* of the six amount patterns, in their fixed order, that matches anywhere in
\* the text, wherever the later patterns match; it is None only when none of
\* the six matches.
C7_FirstAmountPatternWins ==
    pc = "extracted" =>
        LET matching == {k \in DOMAIN amount_patterns : Occurs(amount_patterns[k], text)}
        IN  IF matching = {} THEN fields.claim_amount.t = "none"
            ELSE LET p == amount_patterns[Min(matching)]
                     m == re_search(p, text)
                 IN  /\ m \in Captures(p, text, Leftmost(p, text))
                     /\ fields.claim_amount = PyStr(strip(group1(text, m)))

\* C7 witness: "claim amount: 5 " followed by "Rs. 1,200 " yields "1,200".
C7_Witness ==
    /\ pc = "extracted"
    /\ text = TokClaimAmount \o TokRsAmount
    /\ fields.claim_amount = PyStr(<<"1", ",", "2", "0", "0">>)

\* C8: incident_date comes from the highest tier that matches anywhere: the
\* date after "date of incident", else the leftmost date anchored by one of
\* the keywords, else the leftmost bare date, else None; within the tier it is
\* the leftmost date the tier's pattern can capture, taken as long as it goes.
C8_HighestDateTierWins ==
    pc = "extracted" =>
        LET matching == {k \in DOMAIN date_tiers : Occurs(date_tiers[k], text)}
        IN  IF matching = {} THEN fields.incident_date.t = "none"
            ELSE LET p    == date_tiers[Min(matching)]
                     caps == UNION {Captures(p, text, s) : s \in Starts(text)}
                     a    == Min({c[1] : c \in caps})
                     b    == Max({c[2] : c \in {d \in caps : d[1] = a}})
                 IN  fields.incident_date = PyStr(SubSeq(text, a, b - 1))

\* C8 witness: a bare date, then a keyword-anchored one: the anchored one wins.
C8_Witness ==
    /\ pc = "extracted"
    /\ text = TokBareDate \o TokLossDate
    /\ fields.incident_date = PyStr(<<"2", "/", "2", "/", "2", "1">>)

\* C10: every value of the returned record that is not None is a non-empty
\* str with no whitespace at either end; a keyword followed only by whitespace
\* gives None, not "".
C10_NonEmptyStripped ==
    pc = "extracted" =>
        \A f \in DOMAIN fields :
            fields[f].t = "str" =>
                /\ fields[f].v # <<>>
                /\ fields[f].v[1] \notin Whitespace
                /\ fields[f].v[Len(fields[f].v)] \notin Whitespace

-----------------------------------------------------------------------------
(* compute_differences and the classifier *)

CRITICAL_CLAIM_FIELDS == {"policy_number", "claimant_name", "claim_amount", "incident_date"}

\* dict.get(key): None for a missing key
Get(d, key) == IF key \in DOMAIN d THEN d[key] ELSE None

\* every order in which the keys of a set may be iterated
RECURSIVE Orderings(_)
Orderings(S) ==
    IF S = {} THEN {<<>>}
    ELSE UNION {{<<k>> \o rest : rest \in Orderings(S \ {k})} : k \in S}

\* DiffEntry without the test of line 105: equal values are reported too
DiffEntry_NoInequalityTest(key, new, existing) ==
    LET ov == Get(existing, key)
        nv == Get(new, key)
    IN  IF ov.t = "none" /\ nv.t = "none" THEN <<>>
        ELSE <<[field     |-> key,
                old_value |-> IF ov.t # "none" THEN str(ov) ELSE Placeholder,
                new_value |-> IF nv.t # "none" THEN str(nv) ELSE Placeholder]>>

\* DiffEntry with line 103 skipping the key as soon as the old value is None
DiffEntry_SkipsMissingOld(key, new, existing) ==
    LET ov == Get(existing, key)
        nv == Get(new, key)
    IN  IF ov.t = "none" THEN <<>>
        ELSE IF ~PyEq(ov, nv)
             THEN <<[field     |-> key,
                     old_value |-> str(ov),
                     new_value |-> IF nv.t # "none" THEN str(nv) ELSE Placeholder]>>
             ELSE <<>>

\* the body of the loop of lines 100-110 for one key: the entries it appends
DiffEntry(key, new, existing) ==
    LET ov == Get(existing, key)
        nv == Get(new, key)
    IN  IF ov.t = "none" /\ nv.t = "none" THEN <<>>
        ELSE IF ~PyEq(ov, nv)
             THEN <<[field     |-> key,
                     old_value |-> IF ov.t # "none" THEN str(ov) ELSE Placeholder,
                     new_value |-> IF nv.t # "none" THEN str(nv) ELSE Placeholder]>>
             ELSE <<>>

RECURSIVE DiffLoop(_, _, _)
DiffLoop(order, new, existing) ==
    IF order = <<>> THEN <<>>
    ELSE DiffEntry(Head(order), new, existing) \o DiffLoop(Tail(order), new, existing)

\* all_keys of line 99
AllKeys(new, existing) == DOMAIN new \cup DOMAIN existing

\* compute_differences, given the order in which the set all_keys is iterated
compute_differences(new, existing, order) == DiffLoop(order, new, existing)

\* one fixed iteration order, for callers that only count or collect entries
RECURSIVE SomeOrder(_)
SomeOrder(S) ==
    IF S = {} THEN <<>>
    ELSE LET k == CHOOSE x \in S : TRUE IN <<k>> \o SomeOrder(S \ {k})

\* line 89
CriticalDiffs(ds) == SelectSeq(ds, LAMBDA d : d.field \in CRITICAL_CLAIM_FIELDS)

\* the classifier with > for >= in line 90
key_fields_indicate_different_claim_Strict(new, existing, m) ==
    LET ds == compute_differences(new, existing, SomeOrder(AllKeys(new, existing)))
    IN  Len(CriticalDiffs(ds)) > m

key_fields_indicate_different_claim(new, existing, m) ==
    LET ds == compute_differences(new, existing, SomeOrder(AllKeys(new, existing)))
    IN  Len(CriticalDiffs(ds)) >= m

-----------------------------------------------------------------------------
(* inputs of the comparison *)

\* total number of entries of the two records of an arbitrarily shaped pair
MaxEntries == 2

\* thresholds range over -1 .. MaxThreshold
MaxThreshold == 5

OtherKeys == {"notes"}
Keys == CRITICAL_CLAIM_FIELDS \cup OtherKeys

\* record values: None, the placeholder itself, a str and the int it renders
StrValues == {PyStr(Placeholder), PyStr(<<"7">>)}
Values == {None} \cup StrValues \cup {PyInt(7)}

\* records shaped as extract_key_fields returns them: the four keys, each
\* None or a str
FieldRecords == [CRITICAL_CLAIM_FIELDS -> {None, PyStr(<<"7">>)}]

RecordsOfSize(n) ==
    UNION {[D -> Values] : D \in {S \in SUBSET Keys : Cardinality(S) = n}}

ShapedPairs ==
    UNION {RecordsOfSize(i) \X RecordsOfSize(j) :
              <<i, j>> \in {p \in (0..MaxEntries) \X (0..MaxEntries) : p[1] + p[2] <= MaxEntries}}

Pairs == (FieldRecords \X FieldRecords) \cup ShapedPairs

Thresholds == (-1) .. MaxThreshold

InitDiff ==
    /\ \E p \in Pairs : new_fields = p[1] /\ existing_fields = p[2]
    /\ min_differences = NotCalled
    /\ diffs = NotCalled
    /\ verdict = NotCalled
    /\ text = <<>>
    /\ fields = NotCalled
    /\ pc = "ready"

ComputeDifferences ==
    /\ pc = "ready"
    /\ \E order \in Orderings(AllKeys(new_fields, existing_fields)) :
          diffs' = compute_differences(new_fields, existing_fields, order)
    /\ pc' = "diffed"
    /\ UNCHANGED <<text, fields, new_fields, existing_fields, min_differences, verdict>>

KeyFieldsIndicateDifferentClaim ==
    /\ pc = "ready"
    /\ \E m \in Thresholds :
          /\ min_differences' = m
          /\ verdict' = key_fields_indicate_different_claim(new_fields, existing_fields, m)
    /\ pc' = "classified"
    /\ UNCHANGED <<text, fields, new_fields, existing_fields, diffs>>

NextDiff == ComputeDifferences \/ KeyFieldsIndicateDifferentClaim

SpecDiff == InitDiff /\ [][NextDiff]_vars

-----------------------------------------------------------------------------
(* properties of compute_differences and the classifier *)

\* the two values of a key differ: not both None and not equal
Differs(key, new, existing) ==
    LET ov == Get(existing, key)
        nv == Get(new, key)
    IN  ~(ov.t = "none" /\ nv.t = "none") /\ ~PyEq(ov, nv)

\* a value as an entry shows it: a str is itself, an int its decimal digits,
\* None (or a missing key) the placeholder
Rendered(v) ==
    CASE v.t = "none" -> Placeholder
      [] v.t = "str"  -> v.v
      [] v.t = "int"  -> str(v)

EntriesOf(ds, key) == {i \in DOMAIN ds : ds[i].field = key}

OnlyStrOrNone(d) == \A k \in DOMAIN d : d[k].t \in {"none", "str"}

\* C1: the classifier answers true iff the number of entries of
\* compute_differences(new_fields, existing_fields), in whatever order the keys
\* are iterated, whose field is one of policy_number, claimant_name,
\* claim_amount, incident_date is >= min_differences; that number is the number
\* of critical keys whose values differ, so other keys never count.
C1_ClassifierCountsCriticalDiffs ==
    pc = "classified" =>
        /\ \A order \in Orderings(AllKeys(new_fields, existing_fields)) :
              LET ds == compute_differences(new_fields, existing_fields, order)
                  n  == Cardinality({i \in DOMAIN ds : ds[i].field \in
                            {"policy_number", "claimant_name", "claim_amount", "incident_date"}})
              IN  verdict = (n >= min_differences)
        /\ verdict = (Cardinality({k \in {"policy_number", "claimant_name", "claim_amount",
                                          "incident_date"} :
                                     Differs(k, new_fields, existing_fields)}) >= min_differences)

\* C1 witness: one critical key and one other key differ, the threshold is 2,
\* and the answer is false: the other key did not count.
C1_Witness ==
    /\ pc = "classified"
    /\ min_differences = 2
    /\ verdict = FALSE
    /\ Cardinality({k \in CRITICAL_CLAIM_FIELDS : Differs(k, new_fields, existing_fields)}) = 1
    /\ \E k \in OtherKeys : Differs(k, new_fields, existing_fields)

\* C2: compute_differences returns exactly one entry for each key of the union
\* of the key sets whose values are not equal and not both None (a missing key
\* counting as None) and no other entry; old_value renders the existing
\* record's value and new_value the new record's, None or missing as the
\* placeholder.
C2_OneEntryPerDifferingKey ==
    pc = "diffed" =>
        /\ \A k \in AllKeys(new_fields, existing_fields) :
              IF Differs(k, new_fields, existing_fields)
              THEN /\ Cardinality(EntriesOf(diffs, k)) = 1
                   /\ \A i \in EntriesOf(diffs, k) :
                         /\ diffs[i].old_value = Rendered(Get(existing_fields, k))
                         /\ diffs[i].new_value = Rendered(Get(new_fields, k))
              ELSE EntriesOf(diffs, k) = {}
        /\ \A i \in DOMAIN diffs : diffs[i].field \in AllKeys(new_fields, existing_fields)

\* C2 witness (scenario E): a key present only in new_fields, with a value
\* that is not None, gives one entry whose old_value is the placeholder.
C2_Witness ==
    /\ pc = "diffed"
    /\ \E k \in DOMAIN new_fields \ DOMAIN existing_fields :
          /\ new_fields[k] = PyStr(<<"7">>)
          /\ \E i \in DOMAIN diffs :
                diffs[i] = [field |-> k, old_value |-> Placeholder, new_value |-> <<"7">>]

\* C4: compute_differences(a, b) and compute_differences(b, a) report the same
\* set of fields, and for each field the old_value of one is the new_value of
\* the other and vice versa.
C4_SwapSymmetry ==
    pc = "diffed" =>
        \A order \in Orderings(AllKeys(existing_fields, new_fields)) :
            LET back == compute_differences(existing_fields, new_fields, order)
            IN  /\ {diffs[i].field : i \in DOMAIN diffs} = {back[j].field : j \in DOMAIN back}
                /\ \A i \in DOMAIN diffs : \A j \in DOMAIN back :
                      diffs[i].field = back[j].field =>
                          /\ diffs[i].old_value = back[j].new_value
                          /\ diffs[i].new_value = back[j].old_value

\* C4 witness: a difference between a missing key and a present value.
C4_Witness ==
    /\ pc = "diffed"
    /\ \E i \in DOMAIN diffs :
          /\ diffs[i].old_value # diffs[i].new_value
          /\ diffs[i].field \notin DOMAIN existing_fields

\* the record extract_key_fields returns for the empty text, and for a text
\* no pattern matches
EmptyTextRecord == extract_key_fields(<<>>)
UnrecognizableTextRecord == extract_key_fields(TokHello)

\* C5: compute_differences(a, a) is empty and the classifier answers false on
\* (a, a) for every threshold > 0; the record of an empty or unrecognizable
\* text, all four fields None, is such a record.
C5_SameRecordNoDifference ==
    /\ (pc = "diffed" /\ new_fields = existing_fields) => diffs = <<>>
    /\ (pc = "classified" /\ new_fields = existing_fields /\ min_differences > 0) =>
           verdict = FALSE
    /\ EmptyTextRecord = [f \in CRITICAL_CLAIM_FIELDS |-> None]
    /\ UnrecognizableTextRecord = EmptyTextRecord

\* C5 witness: the all-None record of the empty text compared with itself.
C5_Witness ==
    /\ pc = "diffed"
    /\ new_fields = EmptyTextRecord
    /\ existing_fields = EmptyTextRecord
    /\ diffs = <<>>

\* C9 as stated: for records holding only None and str values, old_value and
\* new_value of every entry are different strings.
C9_OldAndNewDiffer ==
    (pc = "diffed" /\ OnlyStrOrNone(new_fields) /\ OnlyStrOrNone(existing_fields)) =>
        \A i \in DOMAIN diffs : diffs[i].old_value # diffs[i].new_value

\* one record holds the placeholder string itself for the key, the other
\* holds None or lacks the key
PlaceholderCollision(key, new, existing) ==
    \/ Get(new, key) = PyStr(Placeholder) /\ Get(existing, key).t = "none"
    \/ Get(existing, key) = PyStr(Placeholder) /\ Get(new, key).t = "none"

\* C9 amended: for records holding only None and str values, old_value and
\* new_value of an entry are different strings unless one record holds the
\* placeholder string itself for that key and the other holds None or lacks
\* the key; in that case, and only then, both are the placeholder.
C9_OldAndNewDifferUnlessPlaceholder ==
    (pc = "diffed" /\ OnlyStrOrNone(new_fields) /\ OnlyStrOrNone(existing_fields)) =>
        \A i \in DOMAIN diffs :
            IF PlaceholderCollision(diffs[i].field, new_fields, existing_fields)
            THEN diffs[i].old_value = Placeholder /\ diffs[i].new_value = Placeholder
            ELSE diffs[i].old_value # diffs[i].new_value

\* C9 witness: one entry of different strings and one of the collision.
C9_Witness ==
    /\ pc = "diffed"
    /\ OnlyStrOrNone(new_fields) /\ OnlyStrOrNone(existing_fields)
    /\ \E i \in DOMAIN diffs : diffs[i].old_value # diffs[i].new_value
    /\ \E i \in DOMAIN diffs :
          /\ PlaceholderCollision(diffs[i].field, new_fields, existing_fields)
          /\ diffs[i].old_value = diffs[i].new_value

=============================================================================
